---- MODULE Spec2Model ----
(***************************************************************************)
(* Model of spotify_griptape_tool/tool.py: the SpotifyClient tool, its     *)
(* construction and its activities.  Every activity is one action: it      *)
(* reads its parameters from the params mapping, calls the spotipy client  *)
(* (whose outcome is chosen nondeterministically: a response, a            *)
(* SpotifyException or another exception) and shapes the artifact.         *)
(*                                                                         *)
(* Python values are tagged tuples: <<"None">>, <<"str", s>>, <<"int", n>>,*)
(* <<"bool", b>>, <<"list", seq>>, <<"dict", seq of <<key, value>> >>.     *)
(***************************************************************************)
EXTENDS Integers, Sequences, FiniteSets, TLC

VARIABLES
    pc,                  \* "new" | "failed" | "idle" | "returned"
    client_id,           \* constructor argument / attribute
    client_secret,       \* constructor argument / attribute
    authorization_code,  \* constructor argument / attribute
    user_token,          \* constructor argument / attribute
    oauth_manager,       \* attribute set by __attrs_post_init__
    client,              \* the shared spotipy client (its auth token and credentials)
    ctor_log,            \* collaborator calls made during construction, in order
    ctor_exc,            \* the exception a failed construction raised
    n,                   \* activities invoked so far on this instance
    op,                  \* the activity that has just returned
    passed,              \* the params mapping it was passed
    calls,               \* the client calls it made, in order, with their outcomes
    reauth,              \* whether it reached self.get_auth_response()
    result               \* what it returned (or the exception it let escape)

vars == <<pc, client_id, client_secret, authorization_code, user_token,
          oauth_manager, client, ctor_log, ctor_exc, n, op, passed, calls,
          reauth, result>>

ctor_vars == <<client_id, client_secret, authorization_code, user_token,
               oauth_manager, client, ctor_log, ctor_exc>>

(***************************************************************************)
(* Bounds.                                                                 *)
(***************************************************************************)
MaxItems == 2        \* longest item list in a remote response
MaxIds == 2          \* longest list of IDs / URIs in a request
MaxInvocations == 2  \* activities invoked on one instance

(***************************************************************************)
(* Python values.                                                          *)
(***************************************************************************)
None == <<"None">>
Absent == <<"Absent">>     \* a constructor argument that was not passed
S(s) == <<"str", s>>
I(i) == <<"int", i>>
B(b) == <<"bool", b>>
L(q) == <<"list", q>>
D(q) == <<"dict", q>>

Tag(v) == v[1]

SeqsUpTo(X, k) == UNION {[1..m -> X] : m \in 0..k}

\* ", ".join(parts)
RECURSIVE Joined(_, _)
Joined(sep, parts) ==
    IF Len(parts) = 0 THEN ""
    ELSE IF Len(parts) = 1 THEN parts[1]
    ELSE parts[1] \o sep \o Joined(sep, Tail(parts))

\* repr(v) and str(v) of a Python value
RECURSIVE Repr(_)
Repr(v) ==
    CASE Tag(v) = "None" -> "None"
      [] Tag(v) = "str"  -> "'" \o v[2] \o "'"
      [] Tag(v) = "int"  -> ToString(v[2])
      [] Tag(v) = "bool" -> IF v[2] THEN "True" ELSE "False"
      [] Tag(v) = "list" ->
            "[" \o Joined(", ", [i \in 1..Len(v[2]) |-> Repr(v[2][i])]) \o "]"
      [] Tag(v) = "dict" ->
            "{" \o Joined(", ", [i \in 1..Len(v[2]) |->
                      "'" \o v[2][i][1] \o "': " \o Repr(v[2][i][2])]) \o "}"

Str(v) == IF Tag(v) = "str" THEN v[2] ELSE Repr(v)

(***************************************************************************)
(* Exceptions.                                                             *)
(***************************************************************************)
Exc(type, status, msg) == [type |-> type, http_status |-> status, msg |-> msg]
NoExc == Exc("none", 0, "")

SpotifyException(status) == Exc("SpotifyException", status, "remote failure")
ReadTimeout == Exc("ReadTimeout", 0, "Read timed out.")

\* str(e): spotipy's SpotifyException formats status, code, message and reason;
\* the built-in exceptions print their message.
StrExc(e) ==
    IF e.type = "SpotifyException"
    THEN "http status: " \o ToString(e.http_status) \o ", code:-1 - "
             \o e.msg \o ", reason: None"
    ELSE e.msg

NoneTypeHasNoAttribute(a) ==
    Exc("AttributeError", 0, "'NoneType' object has no attribute '" \o a \o "'")
NotSubscriptable == Exc("TypeError", 0, "'NoneType' object is not subscriptable")
NotIterable == Exc("TypeError", 0, "'NoneType' object is not iterable")
KeyError(k) == Exc("KeyError", 0, "'" \o k \o "'")

(***************************************************************************)
(* Artifacts and results.                                                  *)
(***************************************************************************)
Artifact(kind, value, items, exc) ==
    [kind |-> kind, value |-> value, items |-> items, exc |-> exc]

TextArtifact(s) == Artifact("TextArtifact", s, <<>>, NoExc)
ErrorArtifact(s) == Artifact("ErrorArtifact", s, <<>>, NoExc)
ListArtifact(q) == Artifact("ListArtifact", "", q, NoExc)
ReturnsNone == Artifact("None", "", <<>>, NoExc)      \* the method fell off its end
Raises(e) == Artifact("Raised", "", <<>>, e)          \* the exception left the method
NoResult == Artifact("none", "", <<>>, NoExc)

(***************************************************************************)
(* Outcomes of a computation: a value, or a raised exception.              *)
(***************************************************************************)
Ok(v) == [ok |-> TRUE, value |-> v, exc |-> NoExc]
Fail(e) == [ok |-> FALSE, value |-> None, exc |-> e]

\* v[k]
GetItem(v, k) ==
    IF Tag(v) = "None" THEN Fail(NotSubscriptable)
    ELSE IF \E i \in 1..Len(v[2]) : v[2][i][1] = k
         THEN Ok(v[2][CHOOSE i \in 1..Len(v[2]) : v[2][i][1] = k][2])
         ELSE Fail(KeyError(k))

\* v[path[1]][path[2]]...
RECURSIVE GetPath(_, _)
GetPath(v, path) ==
    IF Len(path) = 0 THEN Ok(v)
    ELSE LET g == GetItem(v, Head(path))
         IN  IF g.ok THEN GetPath(g.value, Tail(path)) ELSE g

\* the sequence "for x in v" runs over
Iter(v) ==
    IF Tag(v) = "list" THEN Ok(v[2])
    ELSE IF Tag(v) = "dict" THEN Ok([i \in 1..Len(v[2]) |-> S(v[2][i][1])])
    ELSE Fail(NotIterable)

(***************************************************************************)
(* The params mapping handed to an activity.                               *)
(***************************************************************************)
EmptyDict == [k \in {} |-> None]

\* the values a caller supplies under a key
Sample(k) ==
    CASE k = "ids" -> {L(q) : q \in SeqsUpTo({S("a"), S("b")}, MaxIds)}
      [] k = "uris" -> {L(q) : q \in [1..MaxIds -> {S("spotify:track:t")}]}
      [] k = "q" -> {S("a b")}
      [] k = "type" -> {L(<<S("track"), S("album")>>)}
      [] k = "include_groups" -> {L(<<S("single")>>)}
      [] k = "additional_types" -> {L(<<S("episode")>>)}
      [] k \in {"limit", "offset", "position", "range_start", "insert_before",
                "range_length"} -> {I(3)}
      [] k = "public" -> {B(FALSE)}
      [] k = "collaborative" -> {B(TRUE)}
      [] k = "market" -> {S("GB")}
      [] k = "country" -> {S("SE")}
      [] OTHER -> {S(k \o "-1")}

Extend(f, k, v) == [x \in DOMAIN f \cup {k} |-> IF x = k THEN v ELSE f[x]]

RECURSIVE MapsOver(_)
MapsOver(Ks) ==
    IF Ks = {} THEN {EmptyDict}
    ELSE LET k == CHOOSE x \in Ks : TRUE
         IN  {Extend(f, k, v) : f \in MapsOver(Ks \ {k}), v \in Sample(k)}

\* every mapping a caller may pass for an activity whose keys are keys: no
\* "values" entry at all, or a "values" mapping holding any subset of the keys
Requests(keys) ==
    {EmptyDict} \cup
    {[values |-> f] : f \in UNION {MapsOver(Ks) : Ks \in SUBSET keys}}

HasValues(params) == "values" \in DOMAIN params
\* params.get("values")
Values(params) == IF HasValues(params) THEN params["values"] ELSE EmptyDict
\* vals.get(k, default)
Get(vals, k, default) == IF k \in DOMAIN vals THEN vals[k] ELSE default

(***************************************************************************)
(* The remote service, seen through the spotipy client.                    *)
(***************************************************************************)
Items == {D(<<<<"id", S("x")>>>>), D(<<<<"id", S("y")>>, <<"n", I(1)>>>>)}
StringItems == {S("rock"), S("pop")}
Records == Items \cup {None}
Flags == {B(TRUE), B(FALSE)}

Lists(X) == {L(q) : q \in SeqsUpTo(X, MaxItems)}
Keyed(k, V) == {D(<<<<k, v>>>>) : v \in V}

RECURSIVE Nested(_, _)
Nested(path, V) ==
    IF Len(path) = 0 THEN V ELSE Keyed(Head(path), Nested(Tail(path), V))

\* responses holding a list of items under path, and the responses that lack it
CollectionResponses(path, X) ==
    Nested(path, Lists(X)) \cup {None}
        \cup UNION {Nested(SubSeq(path, 1, i - 1), {D(<<>>)}) : i \in 1..Len(path)}

RemoteFailures ==
    {SpotifyException(401), SpotifyException(403), SpotifyException(500), ReadTimeout}

\* what one call on the client can do: return a response or raise
Outcomes(responses) ==
    {Ok(r) : r \in responses} \cup {Fail(e) : e \in RemoteFailures}

Call(method, args, kwargs, out) ==
    [method |-> method, args |-> args, kwargs |-> kwargs,
     raised |-> ~out.ok, exc |-> out.exc, value |-> out.value]

(***************************************************************************)
(* Construction.                                                           *)
(***************************************************************************)
NoClient == [built |-> FALSE, auth |-> None, client_id |-> None, client_secret |-> None]

\* Spotify(auth=..., client_credentials_manager=SpotifyClientCredentials(...))
Spotify(auth, id, secret) ==
    [built |-> TRUE, auth |-> auth, client_id |-> id, client_secret |-> secret]

\* SpotifyOAuth(client_id=..., client_secret=..., ...)
SpotifyOAuth(id, secret) == <<"SpotifyOAuth", id, secret>>

\* set_auth leaving the client's token as it was
set_auth_dropped(c, token) == c

\* client.set_auth(token)
set_auth(c, token) == [c EXCEPT !.auth = token]

MissingArgument ==
    Exc("TypeError", 0, "__init__() missing required keyword-only argument")
CredentialsNotSet == Exc("ValueError", 0, "client_id and client_secret must be set")
SpotifyOauthError == Exc("SpotifyOauthError", 0, "oauth failure")

\* oauth_manager.get_access_token(code, as_dict=False): a token, or a failure
AccessTokens(code) == {Ok(S("token-for-" \o code[2])), Fail(SpotifyOauthError)}

CredentialValues == {Absent, None, S("id-or-secret")}
OptionalStrings == {None, S("given")}

Init ==
    /\ pc = "new"
    /\ client_id = Absent
    /\ client_secret = Absent
    /\ authorization_code = None
    /\ user_token = None
    /\ oauth_manager = None
    /\ client = NoClient
    /\ ctor_log = <<>>
    /\ ctor_exc = NoExc
    /\ n = 0
    /\ op = "none"
    /\ passed = EmptyDict
    /\ calls = <<>>
    /\ reauth = FALSE
    /\ result = NoResult

Built(status, oauth, cl, log, e) ==
    /\ pc' = status
    /\ oauth_manager' = oauth
    /\ client' = cl
    /\ ctor_log' = log
    /\ ctor_exc' = e

\* Construct without the check of client_id and client_secret in
\* __attrs_post_init__
Construct_unchecked(id, secret, code, token) ==
    /\ pc = "new"
    /\ client_id' = id
    /\ client_secret' = secret
    /\ authorization_code' = code
    /\ user_token' = token
    /\ UNCHANGED <<n, op, passed, calls, reauth, result>>
    /\ IF id = Absent \/ secret = Absent
       THEN Built("failed", None, NoClient, <<>>, MissingArgument)
       ELSE IF code = None
       THEN Built("idle", SpotifyOAuth(id, secret), Spotify(token, id, secret),
                  <<"Spotify", "SpotifyOAuth">>, NoExc)
       ELSE \E t \in AccessTokens(code) :
              IF t.ok
              THEN Built("idle", SpotifyOAuth(id, secret),
                         set_auth(Spotify(token, id, secret), t.value),
                         <<"Spotify", "SpotifyOAuth", "get_access_token", "set_auth">>,
                         NoExc)
              ELSE Built("failed", SpotifyOAuth(id, secret),
                         Spotify(token, id, secret),
                         <<"Spotify", "SpotifyOAuth", "get_access_token">>, t.exc)

\* Construct checking the credentials at the end of __attrs_post_init__, after
\* the OAuth manager was built and the authorization code exchanged
Construct_checking_late(id, secret, code, token) ==
    /\ pc = "new"
    /\ client_id' = id
    /\ client_secret' = secret
    /\ authorization_code' = code
    /\ user_token' = token
    /\ UNCHANGED <<n, op, passed, calls, reauth, result>>
    /\ IF id = Absent \/ secret = Absent
       THEN Built("failed", None, NoClient, <<>>, MissingArgument)
       ELSE IF code = None
       THEN IF id = None \/ secret = None
            THEN Built("failed", SpotifyOAuth(id, secret), Spotify(token, id, secret),
                       <<"Spotify", "SpotifyOAuth">>, CredentialsNotSet)
            ELSE Built("idle", SpotifyOAuth(id, secret), Spotify(token, id, secret),
                       <<"Spotify", "SpotifyOAuth">>, NoExc)
       ELSE \E t \in AccessTokens(code) :
              IF ~t.ok
              THEN Built("failed", SpotifyOAuth(id, secret),
                         Spotify(token, id, secret),
                         <<"Spotify", "SpotifyOAuth", "get_access_token">>, t.exc)
              ELSE IF id = None \/ secret = None
              THEN Built("failed", SpotifyOAuth(id, secret),
                         set_auth(Spotify(token, id, secret), t.value),
                         <<"Spotify", "SpotifyOAuth", "get_access_token", "set_auth">>,
                         CredentialsNotSet)
              ELSE Built("idle", SpotifyOAuth(id, secret),
                         set_auth(Spotify(token, id, secret), t.value),
                         <<"Spotify", "SpotifyOAuth", "get_access_token", "set_auth">>,
                         NoExc)

\* SpotifyClient(client_id=id, client_secret=secret, authorization_code=code,
\*               user_token=token): the attrs __init__, the client Factory and
\* __attrs_post_init__
Construct(id, secret, code, token) ==
    /\ pc = "new"
    /\ client_id' = id
    /\ client_secret' = secret
    /\ authorization_code' = code
    /\ user_token' = token
    /\ UNCHANGED <<n, op, passed, calls, reauth, result>>
    /\ IF id = Absent \/ secret = Absent
       THEN Built("failed", None, NoClient, <<>>, MissingArgument)
       ELSE IF id = None \/ secret = None
       THEN \* SpotifyClientCredentials falls back on the environment for a
            \* credential that is None and raises if it is not there either;
            \* otherwise the check of __attrs_post_init__ raises
            \/ Built("failed", None, NoClient, <<>>, SpotifyOauthError)
            \/ Built("failed", None, Spotify(token, id, secret),
                     <<"Spotify">>, CredentialsNotSet)
       ELSE IF code = None
       THEN Built("idle", SpotifyOAuth(id, secret), Spotify(token, id, secret),
                  <<"Spotify", "SpotifyOAuth">>, NoExc)
       ELSE \E t \in AccessTokens(code) :
              IF t.ok
              THEN Built("idle", SpotifyOAuth(id, secret),
                         set_auth(Spotify(token, id, secret), t.value),
                         <<"Spotify", "SpotifyOAuth", "get_access_token", "set_auth">>,
                         NoExc)
              ELSE Built("failed", SpotifyOAuth(id, secret),
                         Spotify(token, id, secret),
                         <<"Spotify", "SpotifyOAuth", "get_access_token">>, t.exc)

(***************************************************************************)
(* The activity boundary.                                                  *)
(***************************************************************************)
\* Finish building a fresh client for the call, as the Factory does at
\* construction: the token installed by set_auth is lost
Finish_recreating_client(name, params, cs, ra, res) ==
    /\ pc = "idle"
    /\ n < MaxInvocations
    /\ pc' = "returned"
    /\ n' = n + 1
    /\ op' = name
    /\ passed' = params
    /\ calls' = cs
    /\ reauth' = ra
    /\ result' = res
    /\ client' = Spotify(user_token, client_id, client_secret)
    /\ UNCHANGED <<client_id, client_secret, authorization_code, user_token,
                   oauth_manager, ctor_log, ctor_exc>>

\* an activity runs to its end: what it was passed, what it called, what it
\* handed back
Finish(name, params, cs, ra, res) ==
    /\ pc = "idle"
    /\ n < MaxInvocations
    /\ pc' = "returned"
    /\ n' = n + 1
    /\ op' = name
    /\ passed' = params
    /\ calls' = cs
    /\ reauth' = ra
    /\ result' = res
    /\ UNCHANGED ctor_vars

\* vals = params.get("values") followed by vals.get(...): without a "values"
\* entry vals is None and the first vals.get raises before the try block
Activity(name, params, cs, ra, res) ==
    IF HasValues(params)
    THEN Finish(name, params, cs, ra, res)
    ELSE Finish(name, params, <<>>, FALSE, Raises(NoneTypeHasNoAttribute("get")))

\* the caller takes the artifact; the instance is ready for the next activity
ActivityReturn ==
    /\ pc = "returned"
    /\ pc' = "idle"
    /\ op' = "none"
    /\ passed' = EmptyDict
    /\ calls' = <<>>
    /\ reauth' = FALSE
    /\ result' = NoResult
    /\ UNCHANGED <<n, ctor_vars>>

(***************************************************************************)
(* The bodies the activities share.                                        *)
(***************************************************************************)
\* Try returning the exception's bare message instead of str(e)
Try_bare_message(c) == IF c.ok THEN c.value ELSE ErrorArtifact(c.exc.msg)

\* try: <body>  except Exception as e: return ErrorArtifact(str(e))
Try(c) == IF c.ok THEN c.value ELSE ErrorArtifact(StrExc(c.exc))

\* Text wrapping only the record's "id" instead of the whole record
Text_id_only(out) ==
    IF ~out.ok THEN Fail(out.exc)
    ELSE LET g == GetItem(out.value, "id")
         IN  Ok(TextArtifact(Str(IF g.ok THEN g.value ELSE out.value)))

\* result = self.client.<method>(...); return TextArtifact(str(result))
Text(out) == IF out.ok THEN Ok(TextArtifact(Str(out.value))) ELSE Fail(out.exc)

\* artifacts = list(); for x in result[path]: artifacts.append(TextArtifact(str(x)));
\* return ListArtifact(artifacts)
WrapEach(out, path) ==
    IF ~out.ok THEN Fail(out.exc)
    ELSE LET g == GetPath(out.value, path)
         IN  IF ~g.ok THEN Fail(g.exc)
             ELSE LET it == Iter(g.value)
                  IN  IF ~it.ok THEN Fail(it.exc)
                      ELSE Ok(ListArtifact([i \in 1..Len(it.value) |->
                                               TextArtifact(Str(it.value[i]))]))

\* Confirm building the confirmations whether or not the call raised
Confirm_ignoring_failure(out, ids, before, after) ==
    LET it == Iter(ids)
    IN  IF ~it.ok THEN Fail(it.exc)
        ELSE Ok(ListArtifact([i \in 1..Len(it.value) |->
                                 TextArtifact(before \o Str(it.value[i]) \o after)]))

\* Confirm reporting the failure once per ID, in a list, instead of raising to
\* the handler
Confirm_per_id(out, ids, before, after) ==
    LET it == Iter(ids)
    IN  IF ~it.ok THEN Fail(it.exc)
        ELSE Ok(ListArtifact([i \in 1..Len(it.value) |->
                   IF out.ok
                   THEN TextArtifact(before \o Str(it.value[i]) \o after)
                   ELSE ErrorArtifact(StrExc(out.exc))]))

\* self.client.<method>(ids); for id in ids: artifacts.append(TextArtifact(f"...{id}..."))
Confirm(out, ids, before, after) ==
    IF ~out.ok THEN Fail(out.exc)
    ELSE LET it == Iter(ids)
         IN  IF ~it.ok THEN Fail(it.exc)
             ELSE Ok(ListArtifact([i \in 1..Len(it.value) |->
                                      TextArtifact(before \o Str(it.value[i]) \o after)]))

(***************************************************************************)
(* Albums.                                                                 *)
(***************************************************************************)
\* get_album serving only the first invocation made on the instance
get_album_once(params) ==
    LET vals == Values(params)
        id == Get(vals, "id", None)
        market == Get(vals, "market", S("US"))
    IN  \E out \in Outcomes(Records) :
            Activity("get_album", params,
                     <<Call("album", <<id>>, [market |-> market], out)>>,
                     FALSE,
                     IF n = 0 THEN Try(Text(out)) ELSE ErrorArtifact("already used"))

get_album(params) ==
    LET vals == Values(params)
        id == Get(vals, "id", None)
        market == Get(vals, "market", S("US"))
    IN  \E out \in Outcomes(Records) :
            Activity("get_album", params,
                     <<Call("album", <<id>>, [market |-> market], out)>>,
                     FALSE, Try(Text(out)))

get_albums(params) ==
    LET vals == Values(params)
        ids == Get(vals, "ids", None)
        market == Get(vals, "market", S("US"))
    IN  \E out \in Outcomes(CollectionResponses(<<"albums">>, Items)) :
            Activity("get_albums", params,
                     <<Call("albums", <<ids>>, [market |-> market], out)>>,
                     FALSE, Try(WrapEach(out, <<"albums">>)))

get_album_tracks(params) ==
    LET vals == Values(params)
        id == Get(vals, "id", None)
        market == Get(vals, "market", S("US"))
    IN  \E out \in Outcomes(CollectionResponses(<<"items">>, Items)) :
            Activity("get_album_tracks", params,
                     <<Call("album_tracks", <<id>>, [market |-> market], out)>>,
                     FALSE, Try(WrapEach(out, <<"items">>)))

get_current_user_saved_albums(params) ==
    LET vals == Values(params)
        limit == Get(vals, "limit", I(20))
        offset == Get(vals, "offset", I(0))
        market == Get(vals, "market", S("US"))
    IN  \E out \in Outcomes(CollectionResponses(<<"items">>, Items)) :
            Activity("get_current_user_saved_albums", params,
                     <<Call("current_user_saved_albums", <<>>,
                            [limit |-> limit, offset |-> offset, market |-> market],
                            out)>>,
                     FALSE, Try(WrapEach(out, <<"items">>)))

\* add_to_current_user_saved_albums calling the client again after a failure
add_to_current_user_saved_albums_retrying(params) ==
    LET vals == Values(params)
        ids == Get(vals, "ids", None)
    IN  \E out \in Outcomes({None}), again \in Outcomes({None}) :
            Activity("add_to_current_user_saved_albums", params,
                     IF out.ok
                     THEN <<Call("current_user_saved_albums_add", <<ids>>, EmptyDict, out)>>
                     ELSE <<Call("current_user_saved_albums_add", <<ids>>, EmptyDict, out),
                            Call("current_user_saved_albums_add", <<ids>>, EmptyDict,
                                 again)>>,
                     FALSE,
                     Try(Confirm(IF out.ok THEN out ELSE again, ids,
                                 "Successfully added album with id: ", "")))

add_to_current_user_saved_albums(params) ==
    LET vals == Values(params)
        ids == Get(vals, "ids", None)
    IN  \E out \in Outcomes({None}) :
            Activity("add_to_current_user_saved_albums", params,
                     <<Call("current_user_saved_albums_add", <<ids>>, EmptyDict, out)>>,
                     FALSE,
                     Try(Confirm(out, ids, "Successfully added album with id: ", "")))

remove_from_current_user_saved_albums(params) ==
    LET vals == Values(params)
        ids == Get(vals, "ids", None)
    IN  \E out \in Outcomes({None}) :
            Activity("remove_from_current_user_saved_albums", params,
                     <<Call("current_user_saved_albums_delete", <<ids>>, EmptyDict, out)>>,
                     FALSE,
                     Try(Confirm(out, ids, "Successfully removed album with id: ", "")))

\* ids.index(id): the first position holding id
Index(ids, id) == CHOOSE j \in 1..Len(ids) : ids[j] = id /\ \A k \in 1..(j - 1) : ids[k] # id

IndexError == Exc("IndexError", 0, "list index out of range")

\* for id in ids: artifacts.append(TextArtifact(
\*     f"Album with id: {id} is saved: {result[ids.index(id)]}"))
SavedFlags(out, ids) ==
    IF ~out.ok THEN Fail(out.exc)
    ELSE LET it == Iter(ids)
         IN  IF ~it.ok THEN Fail(it.exc)
             ELSE IF Len(it.value) = 0 THEN Ok(ListArtifact(<<>>))
             ELSE IF Tag(out.value) = "None" THEN Fail(NotSubscriptable)
             ELSE IF \E i \in 1..Len(it.value) :
                        Index(it.value, it.value[i]) > Len(out.value[2])
             THEN Fail(IndexError)
             ELSE Ok(ListArtifact([i \in 1..Len(it.value) |->
                     TextArtifact("Album with id: " \o Str(it.value[i]) \o " is saved: "
                         \o Str(out.value[2][Index(it.value, it.value[i])]))]))

check_current_user_saved_albums(params) ==
    LET vals == Values(params)
        ids == Get(vals, "ids", None)
    IN  \E out \in Outcomes(Lists(Flags) \cup {None}) :
            Activity("check_current_user_saved_albums", params,
                     <<Call("current_user_saved_albums_contains", <<ids>>, EmptyDict, out)>>,
                     FALSE, Try(SavedFlags(out, ids)))

\* get_new_releases returning the list it built
get_new_releases_returning(params) ==
    LET vals == Values(params)
        country == Get(vals, "country", None)
        limit == Get(vals, "limit", I(20))
        offset == Get(vals, "offset", I(0))
    IN  \E out \in Outcomes(CollectionResponses(<<"albums", "items">>, Items)) :
            Activity("get_new_releases", params,
                     <<Call("new_releases", <<>>,
                            [country |-> country, limit |-> limit, offset |-> offset],
                            out)>>,
                     FALSE, Try(WrapEach(out, <<"albums", "items">>)))

\* the success path builds the list and ends without a return statement
get_new_releases(params) ==
    LET vals == Values(params)
        country == Get(vals, "country", None)
        limit == Get(vals, "limit", I(20))
        offset == Get(vals, "offset", I(0))
    IN  \E out \in Outcomes(CollectionResponses(<<"albums", "items">>, Items)) :
            LET c == WrapEach(out, <<"albums", "items">>)
            IN  Activity("get_new_releases", params,
                         <<Call("new_releases", <<>>,
                                [country |-> country, limit |-> limit, offset |-> offset],
                                out)>>,
                         FALSE,
                         IF c.ok THEN ReturnsNone ELSE ErrorArtifact(StrExc(c.exc)))

(***************************************************************************)
(* Artists.                                                                *)
(***************************************************************************)
get_artist(params) ==
    LET vals == Values(params)
        id == Get(vals, "id", None)
    IN  \E out \in Outcomes(Records) :
            Activity("get_artist", params,
                     <<Call("artist", <<id>>, EmptyDict, out)>>,
                     FALSE, Try(Text(out)))

get_artists(params) ==
    LET vals == Values(params)
        ids == Get(vals, "ids", None)
    IN  \E out \in Outcomes(CollectionResponses(<<"artists">>, Items)) :
            Activity("get_artists", params,
                     <<Call("artists", <<ids>>, EmptyDict, out)>>,
                     FALSE, Try(WrapEach(out, <<"artists">>)))

get_artist_albums(params) ==
    LET vals == Values(params)
        id == Get(vals, "id", None)
        include_groups == Get(vals, "include_groups", None)
        market == Get(vals, "market", S("US"))
        limit == Get(vals, "limit", I(20))
        offset == Get(vals, "offset", I(0))
    IN  \E out \in Outcomes(CollectionResponses(<<"items">>, Items)) :
            Activity("get_artist_albums", params,
                     <<Call("artist_albums", <<id>>,
                            [include_groups |-> include_groups, market |-> market,
                             limit |-> limit, offset |-> offset], out)>>,
                     FALSE, Try(WrapEach(out, <<"items">>)))

\* get_artist_top_tracks reading country without a default
get_artist_top_tracks_no_default(params) ==
    LET vals == Values(params)
        id == Get(vals, "id", None)
        country == Get(vals, "country", None)
    IN  \E out \in Outcomes(CollectionResponses(<<"tracks">>, Items)) :
            Activity("get_artist_top_tracks", params,
                     <<Call("artist_top_tracks", <<id>>, [country |-> country], out)>>,
                     FALSE, Try(WrapEach(out, <<"tracks">>)))

get_artist_top_tracks(params) ==
    LET vals == Values(params)
        id == Get(vals, "id", None)
        country == Get(vals, "country", S("US"))
    IN  \E out \in Outcomes(CollectionResponses(<<"tracks">>, Items)) :
            Activity("get_artist_top_tracks", params,
                     <<Call("artist_top_tracks", <<id>>, [country |-> country], out)>>,
                     FALSE, Try(WrapEach(out, <<"tracks">>)))

get_artist_related_artists(params) ==
    LET vals == Values(params)
        id == Get(vals, "id", None)
        limit == Get(vals, "limit", I(20))
        offset == Get(vals, "offset", I(0))
    IN  \E out \in Outcomes(CollectionResponses(<<"artists">>, Items)) :
            Activity("get_artist_related_artists", params,
                     <<Call("artist_related_artists", <<id>>,
                            [limit |-> limit, offset |-> offset], out)>>,
                     FALSE, Try(WrapEach(out, <<"artists">>)))

(***************************************************************************)
(* Genres and markets: these two never read params.                        *)
(***************************************************************************)
get_available_genre_seeds(params) ==
    \E out \in Outcomes(CollectionResponses(<<"genres">>, StringItems)) :
        Finish("get_available_genre_seeds", params,
               <<Call("recommendation_genre_seeds", <<>>, EmptyDict, out)>>,
               FALSE, Try(WrapEach(out, <<"genres">>)))

get_available_markets(params) ==
    \E out \in Outcomes(CollectionResponses(<<"markets">>, StringItems)) :
        Finish("get_available_markets", params,
               <<Call("available_markets", <<>>, EmptyDict, out)>>,
               FALSE, Try(WrapEach(out, <<"markets">>)))

(***************************************************************************)
(* Playlists.                                                              *)
(***************************************************************************)
get_playlist(params) ==
    LET vals == Values(params)
        id == Get(vals, "id", None)
        market == Get(vals, "market", S("US"))
        fields == Get(vals, "fields", None)
        additional_types == Get(vals, "additional_types", None)
    IN  \E out \in Outcomes(Records) :
            Activity("get_playlist", params,
                     <<Call("playlist", <<id>>,
                            [market |-> market, fields |-> fields,
                             additional_types |-> additional_types], out)>>,
                     FALSE, Try(Text(out)))

change_playlist_details(params) ==
    LET vals == Values(params)
        id == Get(vals, "id", None)
        name == Get(vals, "name", None)
        public == Get(vals, "public", None)
        collaborative == Get(vals, "collaborative", None)
        description == Get(vals, "description", None)
    IN  \E out \in Outcomes(Records) :
            Activity("change_playlist_details", params,
                     <<Call("playlist_change_details", <<id>>,
                            [name |-> name, public |-> public,
                             collaborative |-> collaborative,
                             description |-> description], out)>>,
                     FALSE, Try(Text(out)))

get_playlist_items(params) ==
    LET vals == Values(params)
        id == Get(vals, "id", None)
        market == Get(vals, "market", S("US"))
        fields == Get(vals, "fields", None)
        additional_types == Get(vals, "additional_types", L(<<S("track"), S("episode")>>))
    IN  \E out \in Outcomes(CollectionResponses(<<"items">>, Items)) :
            Activity("get_playlist_items", params,
                     <<Call("playlist_items", <<id>>,
                            [market |-> market, fields |-> fields,
                             additional_types |-> additional_types], out)>>,
                     FALSE, Try(WrapEach(out, <<"items">>)))

playlist_reorder_items(params) ==
    LET vals == Values(params)
        id == Get(vals, "id", None)
        range_start == Get(vals, "range_start", None)
        insert_before == Get(vals, "insert_before", None)
        range_length == Get(vals, "range_length", None)
        snapshot_id == Get(vals, "snapshot_id", None)
    IN  \E out \in Outcomes(Records) :
            Activity("playlist_reorder_items", params,
                     <<Call("playlist_reorder_items", <<id>>,
                            [range_start |-> range_start, insert_before |-> insert_before,
                             range_length |-> range_length, snapshot_id |-> snapshot_id],
                            out)>>,
                     FALSE, Try(Text(out)))

\* replace_playlist_items with the handler of add_items_to_playlist
replace_playlist_items_reauthorizing(params) ==
    LET vals == Values(params)
        id == Get(vals, "id", None)
        uris == Get(vals, "uris", None)
    IN  \E out \in Outcomes(Records) :
            Activity("replace_playlist_items", params,
                     <<Call("playlist_replace_items", <<id, uris>>, EmptyDict, out)>>,
                     ~out.ok /\ out.exc.type = "SpotifyException"
                         /\ out.exc.http_status \in {403, 401},
                     IF out.ok THEN TextArtifact(Str(out.value))
                     ELSE IF out.exc.type = "SpotifyException"
                             /\ out.exc.http_status \in {403, 401}
                     THEN ErrorArtifact("re-authorize")
                     ELSE ErrorArtifact(StrExc(out.exc)))

replace_playlist_items(params) ==
    LET vals == Values(params)
        id == Get(vals, "id", None)
        uris == Get(vals, "uris", None)
    IN  \E out \in Outcomes(Records) :
            Activity("replace_playlist_items", params,
                     <<Call("playlist_replace_items", <<id, uris>>, EmptyDict, out)>>,
                     FALSE, Try(Text(out)))

\* self.get_auth_response(): SpotifyClient defines no such method and neither
\* does BaseTool, so the attribute lookup raises
get_auth_response ==
    Fail(Exc("AttributeError", 0,
             "'SpotifyClient' object has no attribute 'get_auth_response'"))

\* except SpotifyException as se:
\*     if se.http_status == 403 or se.http_status == 401:
\*         auth_response = self.get_auth_response(); return ErrorArtifact(auth_response)
\*     return ErrorArtifact(str(se))
\* Any other exception is not caught.
AsksReauth(c) ==
    ~c.ok /\ c.exc.type = "SpotifyException" /\ c.exc.http_status \in {403, 401}

TrySpotify(c) ==
    IF c.ok THEN c.value
    ELSE IF c.exc.type # "SpotifyException" THEN Raises(c.exc)
    ELSE IF c.exc.http_status = 403 \/ c.exc.http_status = 401
         THEN IF get_auth_response.ok
              THEN ErrorArtifact(get_auth_response.value)
              ELSE Raises(get_auth_response.exc)
         ELSE ErrorArtifact(StrExc(c.exc))

add_items_to_playlist(params) ==
    LET vals == Values(params)
        id == Get(vals, "id", None)
        tracks == Get(vals, "uris", None)
        position == Get(vals, "position", I(0))
    IN  \E out \in Outcomes(Records) :
            Activity("add_items_to_playlist", params,
                     <<Call("playlist_add_items", <<id, tracks>>,
                            [position |-> position], out)>>,
                     AsksReauth(Text(out)), TrySpotify(Text(out)))

remove_playlist_items(params) ==
    LET vals == Values(params)
        id == Get(vals, "id", None)
        uris == Get(vals, "uris", None)
        snapshot_id == Get(vals, "snapshot_id", None)
    IN  \E out \in Outcomes(Records) :
            Activity("remove_playlist_items", params,
                     <<Call("playlist_remove_all_occurrences_of_items", <<id, uris>>,
                            [snapshot_id |-> snapshot_id], out)>>,
                     FALSE, Try(Text(out)))

get_current_user_playlists(params) ==
    LET vals == Values(params)
        limit == Get(vals, "limit", I(20))
        offset == Get(vals, "offset", I(0))
    IN  \E out \in Outcomes(CollectionResponses(<<"items">>, Items)) :
            Activity("get_current_user_playlists", params,
                     <<Call("current_user_playlists", <<>>,
                            [limit |-> limit, offset |-> offset], out)>>,
                     FALSE, Try(WrapEach(out, <<"items">>)))

get_user_playlists(params) ==
    LET vals == Values(params)
        user_id == Get(vals, "user_id", None)
        limit == Get(vals, "limit", I(20))
        offset == Get(vals, "offset", I(0))
    IN  \E out \in Outcomes(CollectionResponses(<<"items">>, Items)) :
            Activity("get_user_playlists", params,
                     <<Call("user_playlists", <<user_id>>,
                            [limit |-> limit, offset |-> offset], out)>>,
                     FALSE, Try(WrapEach(out, <<"items">>)))

\* self.client.me(): the current user's profile, with or without its "id"
Profiles == Keyed("id", {S("user-1")}) \cup {D(<<>>)}

\* the first argument, self.client.me()["id"], is a second call on the client
\* and is evaluated, inside the try block, before user_playlist_create is called
create_playlist(params) ==
    LET vals == Values(params)
        name == Get(vals, "name", None)
        public == Get(vals, "public", B(TRUE))
        collaborative == Get(vals, "collaborative", B(FALSE))
        description == Get(vals, "description", S(""))
    IN  \E me \in Outcomes(Profiles), out \in Outcomes(Records) :
            LET user == IF me.ok THEN GetItem(me.value, "id") ELSE Fail(me.exc)
                c == IF user.ok THEN Text(out) ELSE Fail(user.exc)
            IN  Activity("create_playlist", params,
                         IF user.ok
                         THEN <<Call("me", <<>>, EmptyDict, me),
                                Call("user_playlist_create", <<user.value, name>>,
                                     [public |-> public, collaborative |-> collaborative,
                                      description |-> description], out)>>
                         ELSE <<Call("me", <<>>, EmptyDict, me)>>,
                         AsksReauth(c), TrySpotify(c))

get_featured_playlists(params) ==
    LET vals == Values(params)
        locale == Get(vals, "locale", None)
        country == Get(vals, "country", None)
        timestamp == Get(vals, "timestamp", None)
        limit == Get(vals, "limit", I(20))
        offset == Get(vals, "offset", I(0))
    IN  \E out \in Outcomes(CollectionResponses(<<"playlists", "items">>, Items)) :
            Activity("get_featured_playlists", params,
                     <<Call("featured_playlists", <<>>,
                            [locale |-> locale, country |-> country,
                             timestamp |-> timestamp, limit |-> limit,
                             offset |-> offset], out)>>,
                     FALSE, Try(WrapEach(out, <<"playlists", "items">>)))

get_category_playlists(params) ==
    LET vals == Values(params)
        category_id == Get(vals, "category_id", None)
        country == Get(vals, "country", None)
        limit == Get(vals, "limit", I(20))
        offset == Get(vals, "offset", I(0))
    IN  \E out \in Outcomes(CollectionResponses(<<"playlists", "items">>, Items)) :
            Activity("get_category_playlists", params,
                     <<Call("category_playlists", <<category_id>>,
                            [country |-> country, limit |-> limit, offset |-> offset],
                            out)>>,
                     FALSE, Try(WrapEach(out, <<"playlists", "items">>)))

get_playlist_cover_image(params) ==
    LET vals == Values(params)
        id == Get(vals, "id", None)
    IN  \E out \in Outcomes(CollectionResponses(<<>>, Items)) :
            Activity("get_playlist_cover_image", params,
                     <<Call("playlist_cover_image", <<id>>, EmptyDict, out)>>,
                     FALSE, Try(WrapEach(out, <<>>)))

upload_custom_playlist_cover_image(params) ==
    LET vals == Values(params)
        id == Get(vals, "id", None)
        image == Get(vals, "image", None)
    IN  \E out \in Outcomes(Records) :
            Activity("upload_custom_playlist_cover_image", params,
                     <<Call("playlist_upload_cover_image", <<id, image>>, EmptyDict, out)>>,
                     FALSE, Try(Text(out)))

(***************************************************************************)
(* Search.                                                                 *)
(***************************************************************************)
\* the characters of the query strings a caller supplies
QueryChars == {<<"a", " ", "b">>}

RECURSIVE Cat(_)
Cat(cs) == IF Len(cs) = 0 THEN "" ELSE Head(cs) \o Cat(Tail(cs))

AlwaysSafe == {"a", "b", "_", ".", "-", "~", "/"}
PercentCode(c) == CASE c = " " -> "%20" [] c = "&" -> "%26" [] OTHER -> "%3F"

\* urllib.parse.quote: every character outside the safe set is percent-encoded;
\* anything that is not a string is rejected
url_encode(q) ==
    IF Tag(q) # "str"
    THEN Fail(Exc("TypeError", 0, "quote_from_bytes() expected bytes"))
    ELSE LET cs == CHOOSE x \in QueryChars : Cat(x) = q[2]
         IN  Ok(S(Cat([i \in 1..Len(cs) |->
                        IF cs[i] \in AlwaysSafe THEN cs[i] ELSE PercentCode(cs[i])])))

\* ",".join(type)
join(sep, type) ==
    IF Tag(type) # "list"
    THEN Fail(Exc("TypeError", 0, "can only join an iterable"))
    ELSE Ok(S(Joined(sep, [i \in 1..Len(type[2]) |-> type[2][i][2]])))

\* what the service files under one result type: its items, or nothing
Entries == Keyed("items", Lists(Items)) \cup {D(<<>>)}
ShortEntries == Keyed("items", {L(<<>>), L(<<D(<<<<"id", S("z")>>>>)>>)}) \cup {D(<<>>)}

SearchResponses ==
    {None} \cup {D(<<<<"tracks", e>>>>) : e \in Entries}
        \cup {D(<<<<k[1], e1>>, <<k[2], e2>>>>) :
                 k \in {<<"tracks", "albums">>, <<"albums", "tracks">>},
                 e1 \in Entries, e2 \in ShortEntries}

\* Flatten passing over a key whose entry holds no "items" instead of raising
RECURSIVE Flatten_skipping(_)
Flatten_skipping(pairs) ==
    IF Len(pairs) = 0 THEN Ok(<<>>)
    ELSE LET key == Head(pairs)[1]
             g == GetItem(Head(pairs)[2], "items")
             rest == Flatten_skipping(Tail(pairs))
         IN  IF ~g.ok THEN rest
             ELSE LET it == Iter(g.value)
                  IN  IF ~it.ok THEN Fail(it.exc)
                      ELSE IF ~rest.ok THEN Fail(rest.exc)
                      ELSE Ok([i \in 1..Len(it.value) |->
                                  TextArtifact(key \o ": " \o Str(it.value[i]))]
                              \o rest.value)

\* for key in res.keys():
\*     for item in res[key]["items"]: artifacts.append(TextArtifact(f"{key}: {item}"))
RECURSIVE Flatten(_)
Flatten(pairs) ==
    IF Len(pairs) = 0 THEN Ok(<<>>)
    ELSE LET key == Head(pairs)[1]
             g == GetItem(Head(pairs)[2], "items")
         IN  IF ~g.ok THEN Fail(g.exc)
             ELSE LET it == Iter(g.value)
                  IN  IF ~it.ok THEN Fail(it.exc)
                      ELSE LET rest == Flatten(Tail(pairs))
                           IN  IF ~rest.ok THEN Fail(rest.exc)
                               ELSE Ok([i \in 1..Len(it.value) |->
                                           TextArtifact(key \o ": " \o Str(it.value[i]))]
                                       \o rest.value)

SearchResult(out) ==
    IF ~out.ok THEN Fail(out.exc)
    ELSE IF Tag(out.value) = "None" THEN Fail(NoneTypeHasNoAttribute("keys"))
    ELSE LET f == Flatten(out.value[2])
         IN  IF f.ok THEN Ok(ListArtifact(f.value)) ELSE Fail(f.exc)

\* url_encode(q) and ",".join(type) are evaluated inside the try block, before
\* the call on the client
search(params) ==
    LET vals == Values(params)
        q == Get(vals, "q", None)
        type == Get(vals, "type", None)
        market == Get(vals, "market", S("US"))
        encoded == url_encode(q)
        joined == join(",", type)
    IN  IF ~encoded.ok
        THEN Activity("search", params, <<>>, FALSE, Try(Fail(encoded.exc)))
        ELSE IF ~joined.ok
        THEN Activity("search", params, <<>>, FALSE, Try(Fail(joined.exc)))
        ELSE \E out \in Outcomes(SearchResponses) :
                Activity("search", params,
                         <<Call("search", <<>>,
                                [q |-> encoded.value, type |-> joined.value,
                                 market |-> market], out)>>,
                         FALSE, Try(SearchResult(out)))

(***************************************************************************)
(* Tracks.                                                                 *)
(***************************************************************************)
\* get_track calling the client a second time after a failure
get_track_retrying(params) ==
    LET vals == Values(params)
        id == Get(vals, "id", None)
        market == Get(vals, "market", S("US"))
    IN  \E out \in Outcomes(Records), again \in Outcomes(Records) :
            Activity("get_track", params,
                     IF out.ok
                     THEN <<Call("track", <<id>>, [market |-> market], out)>>
                     ELSE <<Call("track", <<id>>, [market |-> market], out),
                            Call("track", <<id>>, [market |-> market], again)>>,
                     FALSE, Try(Text(IF out.ok THEN out ELSE again)))

get_track(params) ==
    LET vals == Values(params)
        id == Get(vals, "id", None)
        market == Get(vals, "market", S("US"))
    IN  \E out \in Outcomes(Records) :
            Activity("get_track", params,
                     <<Call("track", <<id>>, [market |-> market], out)>>,
                     FALSE, Try(Text(out)))

get_tracks(params) ==
    LET vals == Values(params)
        ids == Get(vals, "ids", None)
        market == Get(vals, "market", S("US"))
    IN  \E out \in Outcomes(CollectionResponses(<<"tracks">>, Items)) :
            Activity("get_tracks", params,
                     <<Call("tracks", <<ids>>, [market |-> market], out)>>,
                     FALSE, Try(WrapEach(out, <<"tracks">>)))

get_current_users_saved_tracks(params) ==
    LET vals == Values(params)
        limit == Get(vals, "limit", I(20))
        offset == Get(vals, "offset", I(0))
        market == Get(vals, "market", S("US"))
    IN  \E out \in Outcomes(CollectionResponses(<<"items">>, Items)) :
            Activity("get_current_users_saved_tracks", params,
                     <<Call("current_user_saved_tracks", <<>>,
                            [limit |-> limit, offset |-> offset, market |-> market],
                            out)>>,
                     FALSE, Try(WrapEach(out, <<"items">>)))

save_tracks_for_user(params) ==
    LET vals == Values(params)
        ids == Get(vals, "ids", None)
    IN  \E out \in Outcomes({None}) :
            Activity("save_tracks_for_user", params,
                     <<Call("current_user_saved_tracks_add", <<ids>>, EmptyDict, out)>>,
                     FALSE,
                     Try(Confirm(out, ids, "Sucessfully saved track: ",
                                 " to user's library")))

remove_tracks_for_user(params) ==
    LET vals == Values(params)
        ids == Get(vals, "ids", None)
    IN  \E out \in Outcomes({None}) :
            Activity("remove_tracks_for_user", params,
                     <<Call("current_user_saved_tracks_delete", <<ids>>, EmptyDict, out)>>,
                     FALSE,
                     Try(Confirm(out, ids, "Sucessfully removed track: ",
                                 " from user's library")))

check_current_users_saved_tracks(params) ==
    LET vals == Values(params)
        ids == Get(vals, "ids", None)
    IN  \E out \in Outcomes(CollectionResponses(<<>>, Flags)) :
            Activity("check_current_users_saved_tracks", params,
                     <<Call("current_user_saved_tracks_contains", <<ids>>, EmptyDict, out)>>,
                     FALSE, Try(WrapEach(out, <<>>)))

\* the schema declares the key "id"; the method reads "ids"
get_audio_features(params) ==
    LET vals == Values(params)
        ids == Get(vals, "ids", None)
    IN  \E out \in Outcomes(CollectionResponses(<<"audio_features">>, Items)) :
            Activity("get_audio_features", params,
                     <<Call("audio_features", <<ids>>, EmptyDict, out)>>,
                     FALSE, Try(WrapEach(out, <<"audio_features">>)))

get_audio_analysis(params) ==
    LET vals == Values(params)
        id == Get(vals, "id", None)
    IN  \E out \in Outcomes(Records) :
            Activity("get_audio_analysis", params,
                     <<Call("audio_analysis", <<id>>, EmptyDict, out)>>,
                     FALSE, Try(Text(out)))

(***************************************************************************)
(* The specification.                                                      *)
(***************************************************************************)
\* an instance takes an activity when it is constructed and idle
Ready == pc = "idle" /\ n < MaxInvocations

\* construction, the caller taking a result, and the activities, each with every
\* params mapping a caller may pass it
Next ==
    \/ \E id \in CredentialValues, secret \in CredentialValues,
          code \in OptionalStrings, token \in OptionalStrings :
            Construct(id, secret, code, token)
    \/ ActivityReturn
    \/ Ready /\ \E p \in Requests({"id", "market"}) : get_album(p)
    \/ Ready /\ \E p \in Requests({"ids", "market"}) : get_albums(p)
    \/ Ready /\ \E p \in Requests({"id", "market"}) : get_album_tracks(p)
    \/ Ready /\ \E p \in Requests({"limit", "offset", "market"}) : get_current_user_saved_albums(p)
    \/ Ready /\ \E p \in Requests({"ids"}) : add_to_current_user_saved_albums(p)
    \/ Ready /\ \E p \in Requests({"ids"}) : remove_from_current_user_saved_albums(p)
    \/ Ready /\ \E p \in Requests({"ids"}) : check_current_user_saved_albums(p)
    \/ Ready /\ \E p \in Requests({"country", "limit", "offset"}) : get_new_releases(p)
    \/ Ready /\ \E p \in Requests({"id"}) : get_artist(p)
    \/ Ready /\ \E p \in Requests({"ids"}) : get_artists(p)
    \/ Ready /\ \E p \in Requests({"id", "include_groups", "market", "limit", "offset"}) :
                get_artist_albums(p)
    \/ Ready /\ \E p \in Requests({"id", "country"}) : get_artist_top_tracks(p)
    \/ Ready /\ \E p \in Requests({"id", "limit", "offset"}) : get_artist_related_artists(p)
    \/ Ready /\ \E p \in Requests({}) : get_available_genre_seeds(p)
    \/ Ready /\ \E p \in Requests({}) : get_available_markets(p)
    \/ Ready /\ \E p \in Requests({"id", "market", "fields", "additional_types"}) : get_playlist(p)
    \/ Ready /\ \E p \in Requests({"id", "name", "public", "collaborative", "description"}) :
                change_playlist_details(p)
    \/ Ready /\ \E p \in Requests({"id", "market", "fields", "additional_types"}) :
                get_playlist_items(p)
    \/ Ready /\ \E p \in Requests({"id", "range_start", "insert_before", "range_length",
                              "snapshot_id"}) : playlist_reorder_items(p)
    \/ Ready /\ \E p \in Requests({"id", "uris"}) : replace_playlist_items(p)
    \/ Ready /\ \E p \in Requests({"id", "uris", "position"}) : add_items_to_playlist(p)
    \/ Ready /\ \E p \in Requests({"id", "uris", "snapshot_id"}) : remove_playlist_items(p)
    \/ Ready /\ \E p \in Requests({"limit", "offset"}) : get_current_user_playlists(p)
    \/ Ready /\ \E p \in Requests({"user_id", "limit", "offset"}) : get_user_playlists(p)
    \/ Ready /\ \E p \in Requests({"name", "public", "collaborative", "description"}) :
                create_playlist(p)
    \/ Ready /\ \E p \in Requests({"locale", "country", "timestamp", "limit", "offset"}) :
                get_featured_playlists(p)
    \/ Ready /\ \E p \in Requests({"category_id", "country", "limit", "offset"}) :
                get_category_playlists(p)
    \/ Ready /\ \E p \in Requests({"id"}) : get_playlist_cover_image(p)
    \/ Ready /\ \E p \in Requests({"id", "image"}) : upload_custom_playlist_cover_image(p)
    \/ Ready /\ \E p \in Requests({"q", "type", "market"}) : search(p)
    \/ Ready /\ \E p \in Requests({"id", "market"}) : get_track(p)
    \/ Ready /\ \E p \in Requests({"ids", "market"}) : get_tracks(p)
    \/ Ready /\ \E p \in Requests({"limit", "offset", "market"}) :
                get_current_users_saved_tracks(p)
    \/ Ready /\ \E p \in Requests({"ids"}) : save_tracks_for_user(p)
    \/ Ready /\ \E p \in Requests({"ids"}) : remove_tracks_for_user(p)
    \/ Ready /\ \E p \in Requests({"ids"}) : check_current_users_saved_tracks(p)
    \/ Ready /\ \E p \in Requests({"id", "ids"}) : get_audio_features(p)
    \/ Ready /\ \E p \in Requests({"id"}) : get_audio_analysis(p)

Spec == Init /\ [][Next]_vars

(***************************************************************************)
(* Vocabulary of the properties.                                           *)
(***************************************************************************)
Returned == pc = "returned"
IsSuccess(r) == r.kind \in {"TextArtifact", "ListArtifact"}
IsError(r) == r.kind = "ErrorArtifact"

\* the activities whose handler is "except SpotifyException" with the
\* re-authorization branch
ReauthOps == {"add_items_to_playlist", "create_playlist"}
\* the activities that never read params
ParameterlessOps == {"get_available_genre_seeds", "get_available_markets"}

SomeCallRaised == \E i \in 1..Len(calls) : calls[i].raised
LastCall == calls[Len(calls)]
LastCallRaised == Len(calls) > 0 /\ LastCall.raised
AuthorizationFailure(e) == e.type = "SpotifyException" /\ e.http_status \in {401, 403}

\* the keys an activity reads with vals.get(key) and no default
RequiredKeys(o) ==
    CASE o \in {"get_album", "get_album_tracks", "get_artist", "get_artist_top_tracks",
                "get_artist_related_artists", "change_playlist_details",
                "playlist_reorder_items", "get_playlist_cover_image", "get_track",
                "get_audio_analysis"} -> {"id"}
      [] o \in {"get_albums", "add_to_current_user_saved_albums",
                "remove_from_current_user_saved_albums",
                "check_current_user_saved_albums", "get_artists", "get_tracks",
                "save_tracks_for_user", "remove_tracks_for_user",
                "check_current_users_saved_tracks", "get_audio_features"} -> {"ids"}
      [] o = "get_new_releases" -> {"country"}
      [] o = "get_artist_albums" -> {"id", "include_groups"}
      [] o = "get_playlist" -> {"id", "fields", "additional_types"}
      [] o = "get_playlist_items" -> {"id"}
      [] o \in {"replace_playlist_items", "add_items_to_playlist",
                "remove_playlist_items"} -> {"id", "uris"}
      [] o = "get_user_playlists" -> {"user_id"}
      [] o = "create_playlist" -> {"name"}
      [] o = "get_featured_playlists" -> {"locale", "country", "timestamp"}
      [] o = "get_category_playlists" -> {"category_id", "country"}
      [] o = "upload_custom_playlist_cover_image" -> {"id", "image"}
      [] o = "search" -> {"q", "type"}
      [] OTHER -> {}

MissingRequired ==
    IF HasValues(passed) THEN RequiredKeys(op) \ DOMAIN passed["values"] ELSE {}

\* the value a client call received for the parameter read under key k
Forwarded(c, k) ==
    IF k \in DOMAIN c.kwargs THEN c.kwargs[k]
    ELSE IF k \in {"uris", "image", "name"} THEN c.args[2]
    ELSE c.args[1]

(***************************************************************************)
(* C1 (as claimed): every invocation of every activity hands back exactly  *)
(* one of a Success Result (TextArtifact or ListArtifact) and an Error     *)
(* Result (ErrorArtifact): never None, never an escaping exception.        *)
(***************************************************************************)
C1_ExactlyOneResult ==
    Returned => (IsSuccess(result) \/ IsError(result))

(***************************************************************************)
(* C2 (as claimed): whenever a call on the client raised, of whatever      *)
(* exception type, the activity catches it and hands back an Error Result; *)
(* nothing propagates to the caller.                                       *)
(***************************************************************************)
C2_EveryExceptionCaught ==
    (Returned /\ SomeCallRaised) => IsError(result)

(***************************************************************************)
(* C3 (as claimed): a SpotifyException with status 401 or 403 during       *)
(* add_items_to_playlist or create_playlist triggers the re-authorization  *)
(* flow and yields an Error Result carrying the re-authorization response, *)
(* not the exception text; the activity does not raise.                    *)
(***************************************************************************)
C3_ReauthResponseReturned ==
    (Returned /\ op \in ReauthOps /\ LastCallRaised /\ AuthorizationFailure(LastCall.exc))
        => /\ reauth
           /\ IsError(result)
           /\ result.value # StrExc(LastCall.exc)

(***************************************************************************)
(* C4 (as claimed): on add_items_to_playlist and create_playlist every     *)
(* failure other than a 401/403 SpotifyException (a 500, a timeout raised  *)
(* as another exception type) yields the generic Error Result carrying the *)
(* failure's message, and the re-authorization flow is not triggered.      *)
(***************************************************************************)
C4_OtherFailuresGeneric ==
    (Returned /\ op \in ReauthOps /\ LastCallRaised /\ ~AuthorizationFailure(LastCall.exc))
        => /\ result = ErrorArtifact(StrExc(LastCall.exc))
           /\ ~reauth

(***************************************************************************)
(* C5 (as claimed): every invocation of every activity makes exactly one   *)
(* call on the shared client, whatever the parameters and the outcome.     *)
(***************************************************************************)
C5_ExactlyOneCall ==
    Returned => Len(calls) = 1

\* the invocations that get as far as the client: params carries a "values"
\* mapping (or the activity reads none) and search was given a string q and a
\* list type
ReachesClient ==
    /\ HasValues(passed) \/ op \in ParameterlessOps
    /\ op = "search" => MissingRequired = {}

(***************************************************************************)
(* C5 (amended): every invocation makes at most one call on the shared     *)
(* client, and exactly one when it gets as far as the client; the          *)
(* exception is create_playlist, which first calls me() and then, only if  *)
(* me() returned a profile holding an id, user_playlist_create: two calls  *)
(* at most, and no call after one that raised.                             *)
(***************************************************************************)
C5_CallsPerInvocation ==
    Returned =>
        IF op = "create_playlist"
        THEN /\ Len(calls) <= 2
             /\ ReachesClient => Len(calls) >= 1
             /\ Len(calls) >= 1 => calls[1].method = "me"
             /\ Len(calls) = 2 => /\ ~calls[1].raised
                                  /\ GetItem(calls[1].value, "id").ok
                                  /\ calls[2].method = "user_playlist_create"
        ELSE /\ Len(calls) <= 1
             /\ ReachesClient => Len(calls) = 1

C5_Witness ==
    /\ Returned
    /\ op = "create_playlist"
    /\ Len(calls) = 2
    /\ IsSuccess(result)

(***************************************************************************)
(* C6: a construction that was not given a client identifier or a client   *)
(* secret (omitted, or passed as None) fails with an error, and no         *)
(* activity is ever invoked on such an instance.                           *)
(***************************************************************************)
LacksCredential ==
    client_id \in {Absent, None} \/ client_secret \in {Absent, None}

CollectionOps ==
    {"get_albums", "get_album_tracks", "get_current_user_saved_albums",
     "check_current_user_saved_albums", "get_new_releases", "get_artists",
     "get_artist_albums", "get_artist_top_tracks", "get_artist_related_artists",
     "get_available_genre_seeds", "get_available_markets", "get_playlist_items",
     "get_current_user_playlists", "get_user_playlists", "get_featured_playlists",
     "get_category_playlists", "get_playlist_cover_image", "get_tracks",
     "get_current_users_saved_tracks", "check_current_users_saved_tracks",
     "get_audio_features"}

CollectionPath(o) ==
    CASE o = "get_albums" -> <<"albums">>
      [] o \in {"get_artists", "get_artist_related_artists"} -> <<"artists">>
      [] o \in {"get_artist_top_tracks", "get_tracks"} -> <<"tracks">>
      [] o = "get_new_releases" -> <<"albums", "items">>
      [] o \in {"get_featured_playlists", "get_category_playlists"} ->
            <<"playlists", "items">>
      [] o = "get_available_genre_seeds" -> <<"genres">>
      [] o = "get_available_markets" -> <<"markets">>
      [] o = "get_audio_features" -> <<"audio_features">>
      [] o \in {"check_current_user_saved_albums", "check_current_users_saved_tracks",
                "get_playlist_cover_image"} -> <<>>
      [] OTHER -> <<"items">>

\* the remote call succeeded and its response holds the collection
HasCollection ==
    /\ Returned
    /\ op \in CollectionOps
    /\ Len(calls) = 1
    /\ ~LastCall.raised
    /\ GetPath(LastCall.value, CollectionPath(op)).ok
    /\ Tag(GetPath(LastCall.value, CollectionPath(op)).value) = "list"

ResponseItems == GetPath(LastCall.value, CollectionPath(op)).value[2]

\* the wrapped form of the i-th item of the response
Wrapped(i) ==
    IF op = "check_current_user_saved_albums"
    THEN "Album with id: " \o Str(passed["values"]["ids"][2][i]) \o " is saved: "
             \o Str(ResponseItems[i])
    ELSE Str(ResponseItems[i])

(***************************************************************************)
(* C7 (as claimed): when the remote call of a collection-returning         *)
(* activity succeeds, the result is a list with as many elements as the    *)
(* response collection has items, the i-th element wrapping the i-th item. *)
(***************************************************************************)
C7_CollectionPreserved ==
    HasCollection
        => /\ result.kind = "ListArtifact"
           /\ Len(result.items) = Len(ResponseItems)
           /\ \A i \in 1..Len(ResponseItems) : result.items[i] = TextArtifact(Wrapped(i))

(***************************************************************************)
(* C8 (as claimed): an invocation whose params mapping lacks one or more   *)
(* of the activity's required keys does not raise out of the call; its     *)
(* result is a Success Result or an Error Result.                          *)
(***************************************************************************)
C8_MissingKeysYieldResult ==
    (Returned /\ MissingRequired # {}) => (IsSuccess(result) \/ IsError(result))

(***************************************************************************)
(* C9 (as claimed): a required parameter absent from the params mapping is *)
(* passed to the client call as None; the call on the client is still made *)
(* and the activity does not fail locally before reaching the client.      *)
(***************************************************************************)
C9_MissingPassedAsNone ==
    \A k \in MissingRequired :
        Returned => /\ Len(calls) >= 1
                    /\ LastCall.method # "me" => Forwarded(LastCall, k) = None

(***************************************************************************)
(* C10: when the remote call raises on the generic path (the handler       *)
(* "except Exception", or "except SpotifyException" with a status other    *)
(* than 401/403), the activity returns an Error Result whose content is    *)
(* str(e) of that very exception.                                          *)
(***************************************************************************)
OnGenericPath ==
    /\ Returned
    /\ LastCallRaised
    /\ op \in ReauthOps => /\ LastCall.exc.type = "SpotifyException"
                           /\ ~AuthorizationFailure(LastCall.exc)

C10_ErrorCarriesMessage ==
    OnGenericPath => result = ErrorArtifact(StrExc(LastCall.exc))

C10_Witness ==
    /\ OnGenericPath
    /\ op = "get_track"
    /\ LastCall.exc = SpotifyException(500)
    /\ result.value = "http status: 500, code:-1 - remote failure, reason: None"

(***************************************************************************)
(* C11: once the instance is constructed, no step of any activity, in any  *)
(* sequence of invocations and whether they succeed or fail, replaces the  *)
(* shared client or changes the stored credentials, the authorization      *)
(* code, the OAuth manager or the user token: the client after any         *)
(* sequence of calls is the one construction created.                      *)
(***************************************************************************)
Constructed == pc \in {"idle", "returned"}

C11_SessionNeverReplaced ==
    [][Constructed => UNCHANGED <<client, client_id, client_secret,
                                  authorization_code, oauth_manager,
                                  user_token>>]_vars

\* a second activity has returned, after a failure, on an instance whose
\* client carries the token construction exchanged the authorization code for
C11_Witness ==
    /\ Returned
    /\ n = MaxInvocations
    /\ SomeCallRaised
    /\ authorization_code = S("given")
    /\ client = set_auth(Spotify(user_token, client_id, client_secret),
                         S("token-for-given"))

(***************************************************************************)
(* C12: no activity retries.  Within one invocation, once a call on the    *)
(* client has raised, no further call on the client is made before the     *)
(* activity returns: a call that raised is the last call of its            *)
(* invocation.                                                             *)
(***************************************************************************)
C12_NoCallAfterFailure ==
    Returned => \A i \in 1..Len(calls) : calls[i].raised => i = Len(calls)

\* create_playlist whose first call, me(), raised: user_playlist_create is not
\* called and the failure is reported
C12_Witness ==
    /\ Returned
    /\ op = "create_playlist"
    /\ HasValues(passed)
    /\ Len(calls) = 1
    /\ calls[1].method = "me"
    /\ calls[1].exc = SpotifyException(500)
    /\ IsError(result)

\* the activities that take a list of IDs under "ids"
BatchOps ==
    {"add_to_current_user_saved_albums", "remove_from_current_user_saved_albums",
     "check_current_user_saved_albums", "save_tracks_for_user",
     "remove_tracks_for_user", "check_current_users_saved_tracks", "get_albums",
     "get_artists", "get_tracks"}

\* of these, the ones whose loop runs over ids; the others loop over the response
IdsDrivenOps ==
    {"add_to_current_user_saved_albums", "remove_from_current_user_saved_albums",
     "check_current_user_saved_albums", "save_tracks_for_user",
     "remove_tracks_for_user"}

\* a batch activity has returned from an invocation that was given a list of IDs
BatchGiven ==
    /\ Returned
    /\ op \in BatchOps
    /\ HasValues(passed)
    /\ "ids" \in DOMAIN passed["values"]

BatchIds == passed["values"]["ids"][2]

\* the number of elements the activity's loop runs over
WholeBatch == IF op \in IdsDrivenOps THEN Len(BatchIds) ELSE Len(ResponseItems)

(***************************************************************************)
(* C13: a batch activity given a list of IDs is all-or-nothing.  Its       *)
(* result is either a Success list, built after one client call that did   *)
(* not raise and holding one text element for every element of the batch,  *)
(* or one Error Result for the whole call; no list holds an error element  *)
(* and no result follows a call that raised other than the Error Result.   *)
(***************************************************************************)
C13_BatchAllOrNothing ==
    BatchGiven =>
        \/ /\ result.kind = "ListArtifact"
           /\ Len(calls) = 1
           /\ ~calls[1].raised
           /\ Len(result.items) = WholeBatch
           /\ \A i \in 1..Len(result.items) : result.items[i].kind = "TextArtifact"
        \/ /\ IsError(result)
           /\ result.items = <<>>

\* two IDs were checked and the response holds one flag: the first ID's element
\* was built, the second failed, and the result is one Error Result
C13_Witness ==
    /\ BatchGiven
    /\ op = "check_current_user_saved_albums"
    /\ BatchIds = <<S("a"), S("b")>>
    /\ ~LastCall.raised
    /\ LastCall.value = L(<<B(TRUE)>>)
    /\ result = ErrorArtifact("list index out of range")

\* the optional parameters an activity reads with vals.get(key, default) among
\* market, limit, offset and the country of get_artist_top_tracks
DefaultedKeys(o) ==
    CASE o \in {"get_album", "get_albums", "get_album_tracks", "get_playlist",
                "get_playlist_items", "search", "get_track", "get_tracks"} -> {"market"}
      [] o \in {"get_current_user_saved_albums", "get_artist_albums",
                "get_current_users_saved_tracks"} -> {"market", "limit", "offset"}
      [] o \in {"get_new_releases", "get_artist_related_artists",
                "get_current_user_playlists", "get_user_playlists",
                "get_featured_playlists", "get_category_playlists"} -> {"limit", "offset"}
      [] o = "get_artist_top_tracks" -> {"country"}
      [] OTHER -> {}

\* the default of each of these parameters: vals.get(key, default)
DocumentedDefault(k) ==
    CASE k \in {"market", "country"} -> S("US")
      [] k = "limit" -> I(20)
      [] k = "offset" -> I(0)

(***************************************************************************)
(* C14: an invocation that gets as far as the client forwards, for each of *)
(* market, limit, offset (and the country of get_artist_top_tracks) that   *)
(* the activity takes, the value supplied in the params mapping unchanged, *)
(* and when the parameter is absent the default: "US" for market and       *)
(* country, 20 for limit, 0 for offset.                                    *)
(***************************************************************************)
C14_DefaultsForwarded ==
    (Returned /\ ReachesClient) =>
        \A k \in DefaultedKeys(op) :
            /\ Len(calls) = 1
            /\ k \in DOMAIN LastCall.kwargs
            /\ LastCall.kwargs[k] = IF k \in DOMAIN passed["values"]
                                    THEN passed["values"][k]
                                    ELSE DocumentedDefault(k)

\* get_artist_albums given a limit and neither market nor offset: the call
\* carries the given limit and the two defaults
C14_Witness ==
    /\ Returned
    /\ op = "get_artist_albums"
    /\ HasValues(passed)
    /\ DOMAIN passed["values"] = {"id", "limit"}
    /\ LastCall.kwargs["limit"] = I(3)
    /\ LastCall.kwargs["market"] = S("US")
    /\ LastCall.kwargs["offset"] = I(0)

\* the single-record lookups: return TextArtifact(str(result))
LookupOps == {"get_album", "get_artist", "get_track", "get_playlist", "get_audio_analysis"}

\* a lookup's call on the client returned a record
LookupReturnedRecord ==
    /\ Returned
    /\ op \in LookupOps
    /\ Len(calls) = 1
    /\ ~LastCall.raised
    /\ Tag(LastCall.value) = "dict"

(***************************************************************************)
(* C15: when the client call of a single-record lookup returns a record,   *)
(* the result is one TextArtifact whose value is str() of exactly that     *)
(* record: every field with its value, in the record's order, so that no   *)
(* other record of the service has the same text.                          *)
(***************************************************************************)
C15_LookupTextOfRecord ==
    LookupReturnedRecord =>
        /\ result = TextArtifact(Str(LastCall.value))
        /\ \A r \in Records : Str(r) = result.value => r = LastCall.value

\* get_playlist returned the record {"id": "y", "n": 1}
C15_Witness ==
    /\ LookupReturnedRecord
    /\ op = "get_playlist"
    /\ LastCall.value = D(<<<<"id", S("y")>>, <<"n", I(1)>>>>)
    /\ result = TextArtifact("{'id': 'y', 'n': 1}")

\* what a recorded call handed back to the activity
CallOut(c) == IF c.raised THEN Fail(c.exc) ELSE Ok(c.value)

\* the activities confirming each ID after one mutating call, and their texts
ConfirmOps ==
    {"add_to_current_user_saved_albums", "remove_from_current_user_saved_albums",
     "save_tracks_for_user", "remove_tracks_for_user"}

ConfirmBefore(o) ==
    CASE o = "add_to_current_user_saved_albums" -> "Successfully added album with id: "
      [] o = "remove_from_current_user_saved_albums" ->
            "Successfully removed album with id: "
      [] o = "save_tracks_for_user" -> "Sucessfully saved track: "
      [] o = "remove_tracks_for_user" -> "Sucessfully removed track: "

ConfirmAfter(o) ==
    CASE o = "save_tracks_for_user" -> " to user's library"
      [] o = "remove_tracks_for_user" -> " from user's library"
      [] OTHER -> ""

\* the result of activity o as a function of nothing but the params mapping p it
\* was passed and the outcomes cs of the calls it made on the client
Shaped(o, p, cs) ==
    LET vals == Values(p)
        ids == Get(vals, "ids", None)
        out == CallOut(cs[Len(cs)])
    IN  IF ~HasValues(p) /\ o \notin ParameterlessOps
        THEN Raises(NoneTypeHasNoAttribute("get"))
        ELSE IF o = "search"
        THEN LET encoded == url_encode(Get(vals, "q", None))
                 joined == join(",", Get(vals, "type", None))
             IN  IF ~encoded.ok THEN Try(Fail(encoded.exc))
                 ELSE IF ~joined.ok THEN Try(Fail(joined.exc))
                 ELSE Try(SearchResult(out))
        ELSE IF o = "create_playlist"
        THEN LET me == CallOut(cs[1])
                 user == IF me.ok THEN GetItem(me.value, "id") ELSE Fail(me.exc)
             IN  TrySpotify(IF user.ok THEN Text(CallOut(cs[2])) ELSE Fail(user.exc))
        ELSE IF o = "add_items_to_playlist" THEN TrySpotify(Text(out))
        ELSE IF o = "get_new_releases"
        THEN LET c == WrapEach(out, CollectionPath(o))
             IN  IF c.ok THEN ReturnsNone ELSE ErrorArtifact(StrExc(c.exc))
        ELSE IF o = "check_current_user_saved_albums" THEN Try(SavedFlags(out, ids))
        ELSE IF o \in ConfirmOps
        THEN Try(Confirm(out, ids, ConfirmBefore(o), ConfirmAfter(o)))
        ELSE IF o \in CollectionOps THEN Try(WrapEach(out, CollectionPath(o)))
        ELSE Try(Text(out))

(***************************************************************************)
(* C16: each call is independent and stateless.  What an invocation hands  *)
(* back is a function of its params mapping and of what the client         *)
(* answered to its calls, and of nothing else: not of how many activities  *)
(* ran before on the instance, nor of how they ended, nor of the instance's*)
(* attributes.                                                             *)
(***************************************************************************)
C16_ResultFromParamsAndResponse ==
    Returned => result = Shaped(op, passed, calls)

\* get_album answers on an instance on which activities have run before
C16_Witness ==
    /\ Returned
    /\ n = MaxInvocations
    /\ op = "get_album"
    /\ Len(calls) = 1
    /\ ~LastCall.raised
    /\ result = TextArtifact(Str(LastCall.value))

(***************************************************************************)
(* C17 (as claimed): add_items_to_playlist forwards the position it was    *)
(* given; when position is omitted it forces no insertion index on the     *)
(* client call (position is None), so that the items are appended to the   *)
(* end of the playlist.                                                    *)
(***************************************************************************)
C17_OmittedPositionAppends ==
    (Returned /\ op = "add_items_to_playlist" /\ Len(calls) = 1) =>
        LastCall.kwargs["position"] = IF "position" \in DOMAIN passed["values"]
                                      THEN passed["values"]["position"]
                                      ELSE None

(***************************************************************************)
(* C18 (as claimed): when range_length is not set in the params mapping,   *)
(* playlist_reorder_items issues the reorder request with range_length     *)
(* equal to 1.                                                             *)
(***************************************************************************)
C18_RangeLengthDefaultsToOne ==
    (/\ Returned
     /\ op = "playlist_reorder_items"
     /\ Len(calls) = 1
     /\ "range_length" \notin DOMAIN passed["values"])
        => LastCall.kwargs["range_length"] = I(1)

\* the activities the class defines
Activities ==
    CollectionOps \cup LookupOps \cup ConfirmOps \cup ReauthOps
        \cup {"change_playlist_details", "playlist_reorder_items",
              "replace_playlist_items", "remove_playlist_items",
              "upload_custom_playlist_cover_image", "search"}

\* SpotifyClient(): neither client_id nor client_secret is passed
NoArguments ==
    /\ client_id = Absent
    /\ client_secret = Absent
    /\ authorization_code = None
    /\ user_token = None

(***************************************************************************)
(* C19 (as claimed): SpotifyClient can be constructed with no arguments,   *)
(* and a constructed instance exposes an activity reverse_string (which    *)
(* returns its input reversed in a TextArtifact).                          *)
(***************************************************************************)
C19_ReverseStringTool ==
    /\ (pc # "new" /\ NoArguments) => Constructed
    /\ Constructed => "reverse_string" \in Activities

\* get_new_releases has called the client
NewReleasesCalled ==
    /\ Returned
    /\ op = "get_new_releases"
    /\ Len(calls) = 1

\* the call succeeded and every album item of the response was wrapped
NewReleasesWrapped ==
    /\ NewReleasesCalled
    /\ WrapEach(CallOut(LastCall), <<"albums", "items">>).ok

(***************************************************************************)
(* C20: get_new_releases never returns a value on its success path.  When  *)
(* the client call succeeds and the album items are wrapped the activity   *)
(* ends without returning the list it built (the caller gets None); only   *)
(* its error path returns a value, an Error Result; it never returns a     *)
(* Success Result.                                                         *)
(***************************************************************************)
C20_NewReleasesReturnsNothing ==
    /\ NewReleasesCalled =>
           IF NewReleasesWrapped THEN result = ReturnsNone ELSE IsError(result)
    /\ (Returned /\ op = "get_new_releases") => ~IsSuccess(result)

\* the response held two album items and the caller got None
C20_Witness ==
    /\ NewReleasesWrapped
    /\ Len(GetPath(LastCall.value, <<"albums", "items">>).value[2]) = 2
    /\ result.kind = "None"

\* the keys each activity's schema declares: Literal("<key>", ...)
SchemaKeys(o) ==
    CASE o \in {"get_album", "get_album_tracks", "get_track"} -> {"id", "market"}
      [] o \in {"get_albums", "get_tracks"} -> {"ids", "market"}
      [] o \in {"get_current_user_saved_albums", "get_current_users_saved_tracks"} ->
            {"limit", "offset", "market"}
      [] o \in {"add_to_current_user_saved_albums",
                "remove_from_current_user_saved_albums",
                "check_current_user_saved_albums", "get_artists",
                "save_tracks_for_user", "remove_tracks_for_user",
                "check_current_users_saved_tracks"} -> {"ids"}
      [] o = "get_new_releases" -> {"country", "limit", "offset"}
      [] o \in {"get_artist", "get_playlist_cover_image", "get_audio_features",
                "get_audio_analysis"} -> {"id"}
      [] o = "get_artist_albums" -> {"id", "include_groups", "market", "limit", "offset"}
      [] o = "get_artist_top_tracks" -> {"id", "country"}
      [] o = "get_artist_related_artists" -> {"id", "limit", "offset"}
      [] o \in {"get_playlist", "get_playlist_items"} ->
            {"id", "market", "fields", "additional_types"}
      [] o = "change_playlist_details" ->
            {"id", "name", "public", "collaborative", "description"}
      [] o = "playlist_reorder_items" ->
            {"id", "range_start", "insert_before", "range_length", "snapshot_id"}
      [] o = "replace_playlist_items" -> {"id", "uris"}
      [] o = "add_items_to_playlist" -> {"id", "uris", "position"}
      [] o = "remove_playlist_items" -> {"id", "uris", "snapshot_id"}
      [] o = "get_current_user_playlists" -> {"limit", "offset"}
      [] o = "get_user_playlists" -> {"user_id", "limit", "offset"}
      [] o = "create_playlist" -> {"name", "public", "collaborative", "description"}
      [] o = "get_featured_playlists" ->
            {"locale", "country", "timestamp", "limit", "offset"}
      [] o = "get_category_playlists" -> {"category_id", "country", "limit", "offset"}
      [] o = "upload_custom_playlist_cover_image" -> {"id", "image"}
      [] o = "search" -> {"q", "type", "market"}
      [] OTHER -> {}

\* what the client call carries for a value v supplied under key k: search
\* encodes q and joins type, every other value is passed as it is
Sent(o, k, v) ==
    IF o = "search" /\ k = "q" THEN url_encode(v).value
    ELSE IF o = "search" /\ k = "type" THEN join(",", v).value
    ELSE v

\* the activity was passed a mapping holding only keys of its schema and has
\* made the call that takes its parameters
SchemaConforming ==
    /\ Returned
    /\ HasValues(passed)
    /\ DOMAIN passed["values"] \subseteq SchemaKeys(op)
    /\ Len(calls) >= 1
    /\ LastCall.method # "me"

(***************************************************************************)
(* C21 (as claimed): every activity reads each parameter under the key its *)
(* schema declares, so every value that a schema-conforming mapping        *)
(* supplies is the value the client call receives for that parameter; in   *)
(* particular get_audio_features forwards the track IDs supplied under its *)
(* schema's key.                                                           *)
(***************************************************************************)
C21_SchemaKeysAreRead ==
    SchemaConforming =>
        \A k \in DOMAIN passed["values"] :
            Forwarded(LastCall, k) = Sent(op, k, passed["values"][k])

\* check_current_user_saved_albums was given a list of IDs and the client
\* answered with a list of as many flags
SavedAlbumsChecked ==
    /\ BatchGiven
    /\ op = "check_current_user_saved_albums"
    /\ Len(calls) = 1
    /\ ~LastCall.raised
    /\ Tag(LastCall.value) = "list"
    /\ Len(LastCall.value[2]) = Len(BatchIds)

(***************************************************************************)
(* C22 (as claimed): in check_current_user_saved_albums, for every list    *)
(* ids, lists holding the same ID more than once included, and every       *)
(* response of the same length, the Success list has one element per       *)
(* position i of ids, and that element reports ids[i] together with the    *)
(* response flag at the same position i.                                   *)
(***************************************************************************)
C22_FlagsByPosition ==
    SavedAlbumsChecked =>
        /\ result.kind = "ListArtifact"
        /\ Len(result.items) = Len(BatchIds)
        /\ \A i \in 1..Len(BatchIds) :
               result.items[i] =
                   TextArtifact("Album with id: " \o Str(BatchIds[i]) \o " is saved: "
                                    \o Str(LastCall.value[2][i]))

\* a library-mutating activity was given a list of IDs and has called the client
LibraryMutated ==
    /\ BatchGiven
    /\ op \in ConfirmOps
    /\ Len(calls) = 1

(***************************************************************************)
(* C23: for add_to_current_user_saved_albums,                              *)
(* remove_from_current_user_saved_albums, save_tracks_for_user and         *)
(* remove_tracks_for_user, confirmations exist only after the single call  *)
(* on the client returned without raising.  If the call raised the result  *)
(* is an Error Result holding no confirmation for any ID; if it returned,  *)
(* the result is a list of exactly one confirmation per input ID, in       *)
(* input order.                                                            *)
(***************************************************************************)
C23_ConfirmAfterCall ==
    /\ LibraryMutated =>
           IF LastCall.raised
           THEN IsError(result) /\ result.items = <<>>
           ELSE result = ListArtifact([i \in 1..Len(BatchIds) |->
                             TextArtifact(ConfirmBefore(op) \o Str(BatchIds[i])
                                              \o ConfirmAfter(op))])
    /\ (Returned /\ op \in ConfirmOps /\ result.items # <<>>)
           => Len(calls) = 1 /\ ~LastCall.raised

\* two tracks were saved by one call and confirmed in input order
C23_Witness ==
    /\ LibraryMutated
    /\ op = "save_tracks_for_user"
    /\ BatchIds = <<S("b"), S("a")>>
    /\ ~LastCall.raised
    /\ Len(result.items) = 2
    /\ result.items[1].value = "Sucessfully saved track: b to user's library"
    /\ result.items[2].value = "Sucessfully saved track: a to user's library"

(***************************************************************************)
(* C24 (as claimed): an activity that reads parameters and is invoked with *)
(* a params mapping holding no "values" entry still hands back a Success   *)
(* or an Error Result; no fault propagates to the caller.                  *)
(***************************************************************************)
C24_NoValuesYieldsResult ==
    (Returned /\ op \notin ParameterlessOps /\ ~HasValues(passed))
        => (IsSuccess(result) \/ IsError(result))

(***************************************************************************)
(* C25: the re-authorization flow is reached by add_items_to_playlist and  *)
(* create_playlist only.  On every other activity, the other mutating ones *)
(* included, a 401/403 failure of the client call yields the generic Error *)
(* Result carrying str(e) of the exception, and self.get_auth_response()   *)
(* is never reached.                                                       *)
(***************************************************************************)
C25_ReauthOnlyInTwoOps ==
    (Returned /\ op \notin ReauthOps) =>
        /\ ~reauth
        /\ (LastCallRaised /\ AuthorizationFailure(LastCall.exc))
               => result = ErrorArtifact(StrExc(LastCall.exc))

\* change_playlist_details was refused with 403 and reports the exception
C25_Witness ==
    /\ Returned
    /\ op = "change_playlist_details"
    /\ LastCallRaised
    /\ LastCall.exc = SpotifyException(403)
    /\ ~reauth
    /\ result = ErrorArtifact("http status: 403, code:-1 - remote failure, reason: None")

\* how many times construction called the collaborator named x
Count(log, x) == Cardinality({i \in 1..Len(log) : log[i] = x})

(***************************************************************************)
(* C26: construction exchanges the authorization code for an access token  *)
(* and installs that token on the client exactly once, and only when an    *)
(* authorization code was supplied; without a code there is no exchange    *)
(* and the client keeps the user_token it was built with.  Either way this *)
(* is complete before any activity can be invoked.                         *)
(***************************************************************************)
C26_TokenExchangeAtConstruction ==
    /\ Count(ctor_log, "get_access_token") <= 1
    /\ Count(ctor_log, "set_auth") <= 1
    /\ authorization_code = None =>
           /\ Count(ctor_log, "get_access_token") = 0
           /\ Count(ctor_log, "set_auth") = 0
    /\ Constructed =>
           IF authorization_code = None
           THEN client.auth = user_token
           ELSE /\ Count(ctor_log, "get_access_token") = 1
                /\ Count(ctor_log, "set_auth") = 1
                /\ client.auth = S("token-for-" \o authorization_code[2])
    /\ (n > 0 \/ op # "none") => Constructed

\* an activity has run on an instance built with a user_token and an
\* authorization code: the client carries the exchanged token
C26_Witness ==
    /\ Returned
    /\ n = 1
    /\ authorization_code = S("given")
    /\ user_token = S("given")
    /\ ctor_log = <<"Spotify", "SpotifyOAuth", "get_access_token", "set_auth">>
    /\ client.auth = S("token-for-given")

\* construction failed for want of a credential
FailedForCredential == pc = "failed" /\ LacksCredential

(***************************************************************************)
(* C27: a construction that fails because a credential is missing checks   *)
(* the credentials before it builds the OAuth manager and before any token *)
(* exchange: such a construction never calls get_access_token or set_auth, *)
(* even when an authorization code was supplied, and leaves no OAuth       *)
(* manager behind.                                                         *)
(***************************************************************************)
C27_CredentialCheckFirst ==
    FailedForCredential =>
        /\ Count(ctor_log, "SpotifyOAuth") = 0
        /\ Count(ctor_log, "get_access_token") = 0
        /\ Count(ctor_log, "set_auth") = 0
        /\ oauth_manager = None

\* the secret was None and an authorization code was supplied: the check
\* raised after the client Factory and before anything else
C27_Witness ==
    /\ FailedForCredential
    /\ client_secret = None
    /\ authorization_code = S("given")
    /\ ctor_exc = CredentialsNotSet
    /\ ctor_log = <<"Spotify">>

\* search has called the client and the client returned a mapping of result
\* types
SearchSucceeded ==
    /\ Returned
    /\ op = "search"
    /\ Len(calls) = 1
    /\ ~LastCall.raised
    /\ Tag(LastCall.value) = "dict"

\* the <<key, entry>> pairs of the response, in the response's key order
SearchPairs == LastCall.value[2]

HasItems(entry) ==
    /\ GetItem(entry, "items").ok
    /\ Tag(GetItem(entry, "items").value) = "list"

ItemsOf(entry) == GetItem(entry, "items").value[2]

\* the number of items under the first j keys
RECURSIVE ItemsBefore(_, _)
ItemsBefore(pairs, j) ==
    IF j = 0 THEN 0 ELSE ItemsBefore(pairs, j - 1) + Len(ItemsOf(pairs[j][2]))

(***************************************************************************)
(* C28: when the client call of search succeeds, the Success list holds,   *)
(* for each result-type key of the response in the response's key order    *)
(* and for each item under that key in item order, exactly one element     *)
(* "<key>: <item>", so that its length is the sum of the item counts over  *)
(* all keys; and if the entry of any key holds no item collection the      *)
(* whole call yields a single Error Result.                                *)
(***************************************************************************)
C28_SearchFlattened ==
    SearchSucceeded =>
        IF \A j \in 1..Len(SearchPairs) : HasItems(SearchPairs[j][2])
        THEN /\ result.kind = "ListArtifact"
             /\ Len(result.items) = ItemsBefore(SearchPairs, Len(SearchPairs))
             /\ \A j \in 1..Len(SearchPairs) :
                    \A i \in 1..Len(ItemsOf(SearchPairs[j][2])) :
                        result.items[ItemsBefore(SearchPairs, j - 1) + i] =
                            TextArtifact(SearchPairs[j][1] \o ": "
                                             \o Str(ItemsOf(SearchPairs[j][2])[i]))
        ELSE IsError(result) /\ result.items = <<>>

\* two albums and one track were found: three elements, the albums first
C28_Witness ==
    /\ SearchSucceeded
    /\ Len(SearchPairs) = 2
    /\ SearchPairs[1][1] = "albums"
    /\ Len(result.items) = 3
    /\ result.items[2].value = "albums: {'id': 'y', 'n': 1}"
    /\ result.items[3].value = "tracks: {'id': 'z'}"

====
